---- MODULE Spec2Model ----
(***************************************************************************)
(* PDF2JPG service (src/main.py): the POST /convert/ request lifecycle,    *)
(* its helpers download_pdf_from_url, convert_pdf_to_images,               *)
(* create_zip_file and cleanup_directory, GET /health, the per-request     *)
(* workspace directories under temp/ and the single asyncio dispatch loop  *)
(* on which the async handlers run.                                        *)
(***************************************************************************)
EXTENDS Integers, Sequences, FiniteSets, TLC

\* ------------------------------------------------------------------ bounds
\* number of /convert/ requests the model follows
NumReq == 2
\* largest page count of a PDF document
MaxPages == 2
Req == 1..NumReq
\* values uuid.uuid4() returns: one per request
Sids == Req

\* ------------------------------------------------------------ plain values
None == "None"
NoExc == [type |-> "none", code |-> 0, detail |-> "none"]

\* a document's bytes: its length class and what the rasterizer makes of it
\* (pages = -1: not a readable PDF)
Doc(size, pages) == [size |-> size, pages |-> pages]
Docs == {Doc(0, -1)} \cup {Doc(1, n) : n \in (-1)..MaxPages}
\* no file at that path / nothing read yet
NoFile == Doc(-1, -1)

\* an UploadFile with its filename; the parameter left out is NoUpload
UploadFile(filename) == [set |-> TRUE, filename |-> filename]
NoUpload == [set |-> FALSE, filename |-> <<>>]

\* upload filenames, as character sequences
Filenames == { <<"A", ".", "P", "d", "f">>,
               <<"a", ".", "t", "x", "t">> }

\* str.lower() on the characters that occur
LowerChar(c) == CASE c = "A" -> "a" [] c = "P" -> "p" [] c = "D" -> "d"
                  [] c = "F" -> "f" [] OTHER -> c
Lower(s) == [i \in 1..Len(s) |-> LowerChar(s[i])]

\* str.endswith
EndsWith(s, suffix) ==
    /\ Len(s) >= Len(suffix)
    /\ SubSeq(s, Len(s) - Len(suffix) + 1, Len(s)) = suffix

DotPdf == <<".", "p", "d", "f">>

\* Python truthiness of Optional[UploadFile] (None is falsy, an UploadFile is
\* truthy) and of Optional[str] (None and the empty string are falsy)
TruthyFile(v) == v.set
TruthyStr(v) == v # None /\ v # ""

Urls == {"http://host/a.pdf"}

\* ------------------------------------------------------------- page names
DigitChar(d) == <<"0", "1", "2", "3", "4", "5", "6", "7", "8", "9">>[d + 1]

RECURSIVE Digits(_)
Digits(n) == IF n < 10 THEN <<DigitChar(n)>>
             ELSE Digits(n \div 10) \o <<DigitChar(n % 10)>>

RECURSIVE PadLeft(_, _)
PadLeft(s, w) == IF Len(s) >= w THEN s ELSE PadLeft(<<"0">> \o s, w)

\* f'{n:03d}'
Fmt03d(n) == PadLeft(Digits(n), 3)

\* PageName with the index used as it comes from enumerate (i, not i + 1)
PageNameZeroBased(i) == <<"page_">> \o Fmt03d(i) \o <<".jpg">>

\* f'page_{i+1:03d}.jpg' for the 0-based enumerate index i
PageName(i) == <<"page_">> \o Fmt03d(i + 1) \o <<".jpg">>

\* os.path.join(directory, name) and os.path.basename
Join(dir, name) == [dir |-> dir, name |-> name]
Basename(p) == p.name

InputPdf == <<"input.pdf">>
ImagesZip == <<"images.zip">>

\* ------------------------------------------------------------- file system
\* a workspace directory: input.pdf (a Doc or NoFile), the page images
\* present (by name), images.zip (whether it exists and its entry names)
NoZip == [exists |-> FALSE, entries |-> <<>>]
ZipOf(entries) == [exists |-> TRUE, entries |-> entries]
EmptyDir == [exists |-> TRUE, input |-> NoFile, images |-> {}, zip |-> NoZip]
NoDir == [exists |-> FALSE, input |-> NoFile, images |-> {}, zip |-> NoZip]

VARIABLES
    pc,            \* position of each request
    pdf,           \* the `pdf` parameter: NoUpload or an UploadFile
    pdf_url,       \* the `pdf_url` parameter: None or a URL
    session_id,    \* the request's uuid (0 before it is generated)
    content,       \* bytes returned by pdf.read() (NoFile before)
    fetch,         \* how the remote fetch of the request ended
    raster,        \* how the rasterization of the request ended
    image_paths,   \* result of convert_pdf_to_images
    exc,           \* the exception in flight inside convert_pdf
    status,        \* status code the client received (0: nothing yet)
    body,          \* archive entries the client received so far
    cleanup_calls, \* number of cleanup_directory calls made for the request
    loop,          \* request running on the event loop (0: loop is free)
    fs             \* temp/: for each uuid the directory temp/<uuid> or NoDir

vars == <<pc, pdf, pdf_url, session_id, content, fetch, raster, image_paths, exc,
          status, body, cleanup_calls, loop, fs>>

Init ==
    /\ pc = [r \in Req |-> "idle"]
    /\ pdf = [r \in Req |-> NoUpload]
    /\ pdf_url = [r \in Req |-> None]
    /\ session_id = [r \in Req |-> 0]
    /\ content = [r \in Req |-> NoFile]
    /\ fetch = [r \in Req |-> "none"]
    /\ raster = [r \in Req |-> "none"]
    /\ image_paths = [r \in Req |-> <<>>]
    /\ exc = [r \in Req |-> NoExc]
    /\ status = [r \in Req |-> 0]
    /\ body = [r \in Req |-> <<>>]
    /\ cleanup_calls = [r \in Req |-> 0]
    /\ loop = 0
    /\ fs = [s \in Sids |-> NoDir]

\* ------------------------------------------------------- os.path on the fs
\* os.path.exists
Exists(f, p) ==
    /\ f[p.dir].exists
    /\ CASE p.name = InputPdf -> f[p.dir].input # NoFile
         [] p.name = ImagesZip -> f[p.dir].zip.exists
         [] OTHER -> p.name \in f[p.dir].images

\* size in bytes of a ZIP file with the given entries: the end-of-central-
\* directory record alone is 22 bytes, so an archive without entries is not empty
ZipSize(entries) == 22 + Len(entries)

\* os.path.getsize of input.pdf or images.zip
GetSize(f, p) ==
    IF p.name = InputPdf THEN f[p.dir].input.size
    ELSE ZipSize(f[p.dir].zip.entries)

\* ---------------------------------------------------- download_pdf_from_url
\* how the remote fetch can go: raise_for_status raises, requests.get raises,
\* iter_content raises after the file was opened, or a body arrives
FetchOutcomes ==
    {[kind |-> k, doc |-> Doc(0, -1)] : k \in {"http_error", "net_error", "mid_transfer"}}
        \cup {[kind |-> "body", doc |-> d] : d \in Docs}

\* result [ok, fs] of download_pdf_from_url(url, output_path)
download_pdf_from_url(f, output_path, o) ==
    CASE o.kind \in {"http_error", "net_error"} ->
           \* except: the file was never opened, nothing to remove
           [ok |-> FALSE, fs |-> f]
      [] o.kind = "mid_transfer" ->
           \* except: the partly written file exists and is removed
           [ok |-> FALSE, fs |-> [f EXCEPT ![output_path.dir].input = NoFile]]
      [] OTHER ->
           LET g == [f EXCEPT ![output_path.dir].input = o.doc]
           IN  IF GetSize(g, output_path) = 0
               THEN [ok |-> FALSE, fs |-> g]
               ELSE [ok |-> TRUE, fs |-> g]

\* ---------------------------------------------------- convert_pdf_to_images
\* convert_pdf_to_images whose except branch returns the paths saved so far
\* instead of an empty list
convert_pdf_to_images_partial(f, pdf_path, output_dir, fault) ==
    LET doc == f[pdf_path.dir].input
        n == doc.pages
        saved(k) == {<<"page_">> \o Fmt03d(i + 1) \o <<".jpg">> : i \in 0..(k - 1)}
        listed(k) == [j \in 1..k |->
                        Join(output_dir, <<"page_">> \o Fmt03d(j) \o <<".jpg">>)]
    IN  IF n < 0
        THEN [paths |-> <<>>, how |-> "convert_raised", fs |-> f]
        ELSE IF fault \in 1..n
        THEN [paths |-> listed(fault - 1), how |-> "save_raised",
              fs |-> [f EXCEPT ![output_dir].images = @ \cup saved(fault - 1)]]
        ELSE [paths |-> listed(n),
              how |-> IF n = 0 THEN "zero_pages" ELSE "ok",
              fs |-> [f EXCEPT ![output_dir].images = @ \cup saved(n)]]

\* result [paths, how, fs] of convert_pdf_to_images(pdf_path, output_dir);
\* fault = k > 0: image.save raises on page k; fault = 0: no save fails
convert_pdf_to_images(f, pdf_path, output_dir, fault) ==
    LET doc == f[pdf_path.dir].input
        n == doc.pages
        saved(k) == {PageName(i) : i \in 0..(k - 1)}
    IN  IF n < 0
        THEN \* convert_from_path raises
             [paths |-> <<>>, how |-> "convert_raised", fs |-> f]
        ELSE IF fault \in 1..n
        THEN \* pages before the failing one are on disk, the list is dropped
             [paths |-> <<>>, how |-> "save_raised",
              fs |-> [f EXCEPT ![output_dir].images = @ \cup saved(fault - 1)]]
        ELSE [paths |-> [k \in 1..n |-> Join(output_dir, PageName(k - 1))],
              how |-> IF n = 0 THEN "zero_pages" ELSE "ok",
              fs |-> [f EXCEPT ![output_dir].images = @ \cup saved(n)]]

\* ---------------------------------------------------------- create_zip_file
\* ZipEntries with the page number continued from one session to the next
\* instead of restarting at 1 in every archive
RECURSIVE ZipEntriesNumberedOn(_, _, _)
ZipEntriesNumberedOn(f, paths, k) ==
    IF k = 0 THEN <<>>
    ELSE ZipEntriesNumberedOn(f, paths, k - 1) \o
         (IF Exists(f, paths[k]) THEN <<PageName(k - 1 + (paths[k].dir - 1))>>
          ELSE <<>>)

\* entries written for image_paths[1..k]: arcname comes from the enumerate
\* index, a path that does not exist is skipped
RECURSIVE ZipEntries(_, _, _)
ZipEntries(f, paths, k) ==
    IF k = 0 THEN <<>>
    ELSE ZipEntries(f, paths, k - 1) \o
         (IF Exists(f, paths[k]) THEN <<PageName(k - 1)>> ELSE <<>>)

ZipFaults == {"none", "open", "write"}

\* result [ok, fs] of create_zip_file(image_paths, zip_path); zfault "open":
\* ZipFile() raises, "write": zipf.write raises on the first image that is
\* written (there is none when no listed path exists)
create_zip_file(f, paths, zip_path, zfault) ==
    CASE zfault = "open" -> [ok |-> FALSE, fs |-> f]
      [] zfault = "write" /\ ZipEntries(f, paths, Len(paths)) # <<>> ->
           [ok |-> FALSE, fs |-> [f EXCEPT ![zip_path.dir].zip = ZipOf(<<>>)]]
      [] OTHER ->
           LET g == [f EXCEPT ![zip_path.dir].zip =
                                   ZipOf(ZipEntries(f, paths, Len(paths)))]
           IN  [ok |-> Exists(g, zip_path) /\ GetSize(g, zip_path) > 0, fs |-> g]

\* -------------------------------------------------------- cleanup_directory
\* cleanup_directory that empties the directory and leaves it in place
cleanup_directory_contents_only(f, directory, rm) ==
    IF f[directory].exists
    THEN IF rm = "ok" THEN [f EXCEPT ![directory] = EmptyDir] ELSE f
    ELSE f

\* file system after cleanup_directory(directory); rm = "fail": shutil.rmtree
\* raises, which is logged and swallowed
cleanup_directory(f, directory, rm) ==
    IF f[directory].exists
    THEN IF rm = "ok" THEN [f EXCEPT ![directory] = NoDir] ELSE f
    ELSE f

RmOutcomes == {"ok", "fail"}

HTTPException(code, detail) == [type |-> "HTTPException", code |-> code, detail |-> detail]
OtherException(detail) == [type |-> "Exception", code |-> 0, detail |-> detail]

\* ----------------------------------------------------------- the requests
\* locals of convert_pdf that are functions of session_id
temp_dir(r) == session_id[r]
pdf_path(r) == Join(temp_dir(r), InputPdf)
zip_path(r) == Join(temp_dir(r), ImagesZip)

\* str(uuid.uuid4()) as called by request r: a value no other call returns;
\* which value carries no information, so the caller's number stands for it
uuid4(r) == r

\* a client sends POST /convert/ with any combination of the two parameters
Receive(r) ==
    /\ pc[r] = "idle"
    /\ \E p \in {NoUpload} \cup {UploadFile(n) : n \in Filenames},
          u \in {None} \cup Urls :
          /\ pdf' = [pdf EXCEPT ![r] = p]
          /\ pdf_url' = [pdf_url EXCEPT ![r] = u]
    /\ pc' = [pc EXCEPT ![r] = "validate"]
    /\ UNCHANGED <<session_id, content, fetch, raster, image_paths, exc, status, body,
                   cleanup_calls, loop, fs>>

\* Validate without the second check (both parameters present)
ValidateOnlyNeither(r) ==
    /\ pc[r] = "validate"
    /\ loop = 0
    /\ IF ~TruthyFile(pdf[r]) /\ ~TruthyStr(pdf_url[r])
       THEN /\ status' = [status EXCEPT ![r] = 422]
            /\ pc' = [pc EXCEPT ![r] = "done"]
            /\ UNCHANGED <<session_id, fs, loop>>
       ELSE /\ session_id' = [session_id EXCEPT ![r] = r]
            /\ fs' = [fs EXCEPT ![r] = IF @.exists THEN @ ELSE EmptyDir]
            /\ pc' = [pc EXCEPT ![r] = "resolve"]
            /\ loop' = r
            /\ UNCHANGED status
    /\ UNCHANGED <<pdf, pdf_url, content, fetch, raster, image_paths, exc, body,
                   cleanup_calls>>

\* Validate with uuid4 and makedirs moved in front of the two 422 checks
ValidateAfterMakedirs(r) ==
    /\ pc[r] = "validate"
    /\ loop = 0
    /\ session_id' = [session_id EXCEPT ![r] = uuid4(r)]
    /\ fs' = [fs EXCEPT ![uuid4(r)] = IF @.exists THEN @ ELSE EmptyDir]
    /\ IF (~TruthyFile(pdf[r]) /\ ~TruthyStr(pdf_url[r]))
          \/ (TruthyFile(pdf[r]) /\ TruthyStr(pdf_url[r]))
       THEN /\ status' = [status EXCEPT ![r] = 422]
            /\ pc' = [pc EXCEPT ![r] = "done"]
            /\ UNCHANGED loop
       ELSE /\ pc' = [pc EXCEPT ![r] = "resolve"]
            /\ loop' = r
            /\ UNCHANGED status
    /\ UNCHANGED <<pdf, pdf_url, content, fetch, raster, image_paths, exc, body,
                   cleanup_calls>>

\* lines 160-179: the two 422 checks, then uuid4 and makedirs(exist_ok=True)
Validate(r) ==
    /\ pc[r] = "validate"
    /\ loop = 0
    /\ IF (~TruthyFile(pdf[r]) /\ ~TruthyStr(pdf_url[r]))
          \/ (TruthyFile(pdf[r]) /\ TruthyStr(pdf_url[r]))
       THEN /\ status' = [status EXCEPT ![r] = 422]
            /\ pc' = [pc EXCEPT ![r] = "done"]
            /\ UNCHANGED <<session_id, fs, loop>>
       ELSE /\ session_id' = [session_id EXCEPT ![r] = uuid4(r)]
            /\ fs' = [fs EXCEPT ![uuid4(r)] = IF @.exists THEN @ ELSE EmptyDir]
            /\ pc' = [pc EXCEPT ![r] = "resolve"]
            /\ loop' = r
            /\ UNCHANGED status
    /\ UNCHANGED <<pdf, pdf_url, content, fetch, raster, image_paths, exc, body,
                   cleanup_calls>>

\* lines 183-188: the URL branch calls download_pdf_from_url, which blocks in
\* requests.get
BeginDownload(r) ==
    /\ pc[r] = "resolve"
    /\ loop = r
    /\ TruthyStr(pdf_url[r])
    /\ pc' = [pc EXCEPT ![r] = "downloading"]
    /\ UNCHANGED <<pdf, pdf_url, session_id, content, fetch, raster, image_paths, exc,
                   status, body, cleanup_calls, loop, fs>>

\* lines 35-61 and 188-192: the fetch ends; False raises HTTPException(400)
FinishDownload(r) ==
    /\ pc[r] = "downloading"
    /\ loop = r
    /\ \E o \in FetchOutcomes :
          LET res == download_pdf_from_url(fs, pdf_path(r), o)
          IN  /\ fetch' = [fetch EXCEPT ![r] =
                             IF o.kind = "body" /\ o.doc.size = 0 THEN "empty"
                             ELSE o.kind]
              /\ fs' = res.fs
              /\ IF res.ok
                 THEN /\ pc' = [pc EXCEPT ![r] = "verify"]
                      /\ UNCHANGED exc
                 ELSE /\ pc' = [pc EXCEPT ![r] = "except"]
                      /\ exc' = [exc EXCEPT ![r] = HTTPException(400, "download")]
    /\ UNCHANGED <<pdf, pdf_url, session_id, content, raster, image_paths, status, body,
                   cleanup_calls, loop>>

\* lines 194-208: the upload branch checks the filename, then awaits pdf.read()
CheckUpload(r) ==
    /\ pc[r] = "resolve"
    /\ loop = r
    /\ ~TruthyStr(pdf_url[r])
    /\ IF ~EndsWith(Lower(pdf[r].filename), DotPdf)
       THEN /\ pc' = [pc EXCEPT ![r] = "except"]
            /\ exc' = [exc EXCEPT ![r] = HTTPException(400, "not_pdf")]
            /\ UNCHANGED loop
       ELSE /\ pc' = [pc EXCEPT ![r] = "reading"]
            /\ loop' = 0
            /\ UNCHANGED exc
    /\ UNCHANGED <<pdf, pdf_url, session_id, content, fetch, raster, image_paths,
                   status, body, cleanup_calls, fs>>

\* WriteUpload without the check for empty content: whatever was read is
\* written to input.pdf
WriteUploadNoEmptyCheck(r) ==
    /\ pc[r] = "reading"
    /\ loop = 0
    /\ loop' = r
    /\ \E d \in Docs, wr \in {"ok", "oserror"} :
          /\ content' = [content EXCEPT ![r] = d]
          /\ IF wr = "oserror"
             THEN /\ pc' = [pc EXCEPT ![r] = "except"]
                  /\ exc' = [exc EXCEPT ![r] = OtherException("OSError")]
                  /\ UNCHANGED fs
             ELSE /\ pc' = [pc EXCEPT ![r] = "verify"]
                  /\ fs' = [fs EXCEPT ![session_id[r]].input = d]
                  /\ UNCHANGED exc
    /\ UNCHANGED <<pdf, pdf_url, session_id, fetch, raster, image_paths, status, body,
                   cleanup_calls>>

\* lines 208-216: pdf.read() returns; empty content raises HTTPException(400),
\* otherwise the content is written to input.pdf (open or write may raise
\* OSError, which the handler does not expect, and open does raise it when
\* the directory is not there)
WriteUpload(r) ==
    /\ pc[r] = "reading"
    /\ loop = 0
    /\ loop' = r
    /\ \E d \in Docs, wr \in {"ok", "oserror"} :
          /\ content' = [content EXCEPT ![r] = d]
          /\ IF d.size = 0
             THEN /\ pc' = [pc EXCEPT ![r] = "except"]
                  /\ exc' = [exc EXCEPT ![r] = HTTPException(400, "empty")]
                  /\ UNCHANGED fs
             ELSE IF wr = "oserror" \/ ~fs[temp_dir(r)].exists
             THEN /\ pc' = [pc EXCEPT ![r] = "except"]
                  /\ exc' = [exc EXCEPT ![r] = OtherException("OSError")]
                  /\ UNCHANGED fs
             ELSE /\ pc' = [pc EXCEPT ![r] = "verify"]
                  /\ fs' = [fs EXCEPT ![temp_dir(r)].input = d]
                  /\ UNCHANGED exc
    /\ UNCHANGED <<pdf, pdf_url, session_id, fetch, raster, image_paths, status, body,
                   cleanup_calls>>

\* VerifyPdf without the check of lines 219-223: convert_pdf_to_images is
\* called on whatever the source branch left
VerifyPdfNoGate(r) ==
    /\ pc[r] = "verify"
    /\ loop = r
    /\ pc' = [pc EXCEPT ![r] = "rasterizing"]
    /\ UNCHANGED <<pdf, pdf_url, session_id, content, fetch, raster, image_paths,
                   exc, status, body, cleanup_calls, loop, fs>>

\* lines 218-226: the shared gate, then convert_pdf_to_images is called and
\* blocks in the rasterizer
VerifyPdf(r) ==
    /\ pc[r] = "verify"
    /\ loop = r
    /\ IF ~Exists(fs, pdf_path(r)) \/ GetSize(fs, pdf_path(r)) = 0
       THEN /\ pc' = [pc EXCEPT ![r] = "except"]
            /\ exc' = [exc EXCEPT ![r] = HTTPException(400, "invalid")]
       ELSE /\ pc' = [pc EXCEPT ![r] = "rasterizing"]
            /\ UNCHANGED exc
    /\ UNCHANGED <<pdf, pdf_url, session_id, content, fetch, raster, image_paths,
                   status, body, cleanup_calls, loop, fs>>

\* lines 63-89 and 226-232: convert_pdf_to_images returns; an empty list raises
\* HTTPException(500)
FinishRasterize(r) ==
    /\ pc[r] = "rasterizing"
    /\ loop = r
    /\ \E fault \in 0..MaxPages :
          LET res == convert_pdf_to_images(fs, pdf_path(r), temp_dir(r), fault)
          IN  /\ fault <= fs[temp_dir(r)].input.pages \/ fault = 0
              /\ image_paths' = [image_paths EXCEPT ![r] = res.paths]
              /\ raster' = [raster EXCEPT ![r] = res.how]
              /\ fs' = res.fs
              /\ IF res.paths = <<>>
                 THEN /\ pc' = [pc EXCEPT ![r] = "except"]
                      /\ exc' = [exc EXCEPT ![r] = HTTPException(500, "no_images")]
                 ELSE /\ pc' = [pc EXCEPT ![r] = "archiving"]
                      /\ UNCHANGED exc
    /\ UNCHANGED <<pdf, pdf_url, session_id, content, fetch, status, body,
                   cleanup_calls, loop>>

\* BuildArchive that drops the return value of create_zip_file and goes on to
\* the verification of the archive in every case
BuildArchiveIgnoringResult(r) ==
    /\ pc[r] = "archiving"
    /\ loop = r
    /\ \E zfault \in ZipFaults :
          LET res == create_zip_file(fs, image_paths[r], zip_path(r), zfault)
          IN  fs' = res.fs
    /\ pc' = [pc EXCEPT ![r] = "verify_zip"]
    /\ UNCHANGED <<pdf, pdf_url, session_id, content, fetch, raster, image_paths,
                   exc, status, body, cleanup_calls, loop>>

\* lines 234-240: create_zip_file; False raises HTTPException(500)
BuildArchive(r) ==
    /\ pc[r] = "archiving"
    /\ loop = r
    /\ \E zfault \in ZipFaults :
          LET res == create_zip_file(fs, image_paths[r], zip_path(r), zfault)
          IN  /\ fs' = res.fs
              /\ IF res.ok
                 THEN /\ pc' = [pc EXCEPT ![r] = "verify_zip"]
                      /\ UNCHANGED exc
                 ELSE /\ pc' = [pc EXCEPT ![r] = "except"]
                      /\ exc' = [exc EXCEPT ![r] = HTTPException(500, "zip_failed")]
    /\ UNCHANGED <<pdf, pdf_url, session_id, content, fetch, raster, image_paths,
                   status, body, cleanup_calls, loop>>

\* Respond with background=cleanup_directory(temp_dir): the call is evaluated
\* while the response is built, not after it was sent
RespondEagerCleanup(r) ==
    /\ pc[r] = "verify_zip"
    /\ loop = r
    /\ IF ~Exists(fs, zip_path(r)) \/ GetSize(fs, zip_path(r)) = 0
       THEN /\ pc' = [pc EXCEPT ![r] = "except"]
            /\ exc' = [exc EXCEPT ![r] = HTTPException(500, "zip_empty")]
            /\ UNCHANGED <<status, loop, fs, cleanup_calls>>
       ELSE /\ pc' = [pc EXCEPT ![r] = "sending"]
            /\ status' = [status EXCEPT ![r] = 200]
            /\ fs' = cleanup_directory(fs, temp_dir(r), "ok")
            /\ cleanup_calls' = [cleanup_calls EXCEPT ![r] = @ + 1]
            /\ loop' = 0
            /\ UNCHANGED exc
    /\ UNCHANGED <<pdf, pdf_url, session_id, content, fetch, raster, image_paths,
                   body>>

\* lines 242-257: the archive is verified and the FileResponse is returned with
\* cleanup_directory as its background callback; the framework sends status
\* 200 and the headers and starts to stream the file
Respond(r) ==
    /\ pc[r] = "verify_zip"
    /\ loop = r
    /\ IF ~Exists(fs, zip_path(r)) \/ GetSize(fs, zip_path(r)) = 0
       THEN /\ pc' = [pc EXCEPT ![r] = "except"]
            /\ exc' = [exc EXCEPT ![r] = HTTPException(500, "zip_empty")]
            /\ UNCHANGED <<status, loop>>
       ELSE /\ pc' = [pc EXCEPT ![r] = "sending"]
            /\ status' = [status EXCEPT ![r] = 200]
            /\ loop' = 0
            /\ UNCHANGED exc
    /\ UNCHANGED <<pdf, pdf_url, session_id, content, fetch, raster, image_paths, body,
                   cleanup_calls, fs>>

\* FileResponse streams images.zip from disk, one entry's worth of bytes per
\* chunk; after the last chunk the background callback is due
SendChunk(r) ==
    /\ pc[r] = "sending"
    /\ loop = 0
    /\ LET z == fs[temp_dir(r)].zip
           n == Len(body[r]) + 1
       IN  IF ~Exists(fs, zip_path(r))
           THEN \* the file is gone: the response breaks off
                /\ pc' = [pc EXCEPT ![r] = "aborted"]
                /\ UNCHANGED body
           ELSE /\ body' = [body EXCEPT ![r] =
                              IF n <= Len(z.entries) THEN SubSeq(z.entries, 1, n)
                              ELSE z.entries]
                /\ pc' = [pc EXCEPT ![r] =
                            IF n >= Len(z.entries) THEN "background" ELSE "sending"]
    /\ UNCHANGED <<pdf, pdf_url, session_id, content, fetch, raster, image_paths, exc,
                   status, cleanup_calls, loop, fs>>

\* the client goes away while the body is streamed: send raises and the
\* response ends without reaching its background callback
AbortTransmission(r) ==
    /\ pc[r] = "sending"
    /\ loop = 0
    /\ pc' = [pc EXCEPT ![r] = "aborted"]
    /\ UNCHANGED <<pdf, pdf_url, session_id, content, fetch, raster, image_paths, exc,
                   status, body, cleanup_calls, loop, fs>>

\* line 256: the background callback, run after the last chunk was sent
Background(r) ==
    /\ pc[r] = "background"
    /\ loop = 0
    /\ \E rm \in RmOutcomes :
          fs' = cleanup_directory(fs, temp_dir(r), rm)
    /\ cleanup_calls' = [cleanup_calls EXCEPT ![r] = @ + 1]
    /\ pc' = [pc EXCEPT ![r] = "done"]
    /\ UNCHANGED <<pdf, pdf_url, session_id, content, fetch, raster, image_paths, exc,
                   status, body, loop>>

\* ExceptHTTPException with a cleanup_directory that lets the failure of
\* rmtree out: the client gets the 500 of an unhandled error in place of the
\* status of the exception that was being handled
ExceptHTTPExceptionCleanupRaises(r) ==
    /\ pc[r] = "except"
    /\ loop = r
    /\ exc[r].type = "HTTPException"
    /\ \E rm \in RmOutcomes :
          /\ fs' = cleanup_directory(fs, temp_dir(r), rm)
          /\ status' = [status EXCEPT ![r] = IF rm = "fail" THEN 500 ELSE exc[r].code]
    /\ cleanup_calls' = [cleanup_calls EXCEPT ![r] = @ + 1]
    /\ pc' = [pc EXCEPT ![r] = "done"]
    /\ loop' = 0
    /\ UNCHANGED <<pdf, pdf_url, session_id, content, fetch, raster, image_paths, exc,
                   body>>

\* lines 259-262: except HTTPException: cleanup, then re-raise
ExceptHTTPException(r) ==
    /\ pc[r] = "except"
    /\ loop = r
    /\ exc[r].type = "HTTPException"
    /\ \E rm \in RmOutcomes :
          fs' = cleanup_directory(fs, temp_dir(r), rm)
    /\ cleanup_calls' = [cleanup_calls EXCEPT ![r] = @ + 1]
    /\ status' = [status EXCEPT ![r] = exc[r].code]
    /\ pc' = [pc EXCEPT ![r] = "done"]
    /\ loop' = 0
    /\ UNCHANGED <<pdf, pdf_url, session_id, content, fetch, raster, image_paths, exc,
                   body>>

\* lines 264-271: except Exception: cleanup, then HTTPException(500)
ExceptException(r) ==
    /\ pc[r] = "except"
    /\ loop = r
    /\ exc[r].type = "Exception"
    /\ \E rm \in RmOutcomes :
          fs' = cleanup_directory(fs, temp_dir(r), rm)
    /\ cleanup_calls' = [cleanup_calls EXCEPT ![r] = @ + 1]
    /\ status' = [status EXCEPT ![r] = 500]
    /\ exc' = [exc EXCEPT ![r] = HTTPException(500, "internal")]
    /\ pc' = [pc EXCEPT ![r] = "done"]
    /\ loop' = 0
    /\ UNCHANGED <<pdf, pdf_url, session_id, content, fetch, raster, image_paths,
                   body>>

\* lines 139-145: GET /health is answered once the loop gets to it; the handler
\* reads and writes no state
health_check ==
    /\ loop = 0
    /\ UNCHANGED vars

Next ==
    \/ \E r \in Req :
          \/ Receive(r)
          \/ Validate(r)
          \/ BeginDownload(r)
          \/ FinishDownload(r)
          \/ CheckUpload(r)
          \/ WriteUpload(r)
          \/ VerifyPdf(r)
          \/ FinishRasterize(r)
          \/ BuildArchive(r)
          \/ Respond(r)
          \/ SendChunk(r)
          \/ AbortTransmission(r)
          \/ Background(r)
          \/ ExceptHTTPException(r)
          \/ ExceptException(r)
    \/ health_check

Spec == Init /\ [][Next]_vars

\* ---------------------------------------------- a workspace that is disturbed
\* Something outside the request removes a page image from a workspace (the
\* case the os.path.exists test of create_zip_file, line 98, is written for).
RemoveImage(s) ==
    /\ fs[s].exists
    /\ \E name \in fs[s].images :
          fs' = [fs EXCEPT ![s].images = @ \ {name}]
    /\ UNCHANGED <<pc, pdf, pdf_url, session_id, content, fetch, raster,
                   image_paths, exc, status, body, cleanup_calls, loop>>

NextEnv == Next \/ \E s \in Sids : RemoveImage(s)

SpecEnv == Init /\ [][NextEnv]_vars

\* ------------------------------------------------ an input that does not last
\* input.pdf is lost or emptied after the request stored it and before the
\* check of lines 219-223 reads it (the case that check is written for:
\* neither source branch can itself hand over a missing or empty file). A loss
\* after the check makes convert_from_path raise, which is one of the outcomes
\* of FinishRasterize already.
DisturbInput(s) ==
    /\ fs[s].exists
    /\ fs[s].input # NoFile
    /\ \E r \in Req : session_id[r] = s /\ pc[r] = "verify"
    /\ \E d \in {NoFile, Doc(0, -1)} :
          /\ d # fs[s].input
          /\ fs' = [fs EXCEPT ![s].input = d]
    /\ UNCHANGED <<pc, pdf, pdf_url, session_id, content, fetch, raster,
                   image_paths, exc, status, body, cleanup_calls, loop>>

NextGate == Next \/ \E s \in Sids : DisturbInput(s)

SpecGate == Init /\ [][NextGate]_vars

\* --------------------------------------------- session identifiers by chance
\* uuid.uuid4() draws 122 random bits: nothing in the program keeps a draw
\* from repeating an earlier one or from naming a directory that is still on
\* disk. Lines 160-179 with the identifier drawn from all of Sids, and
\* makedirs(exist_ok=True) taking an existing directory as it is.
ValidateAnyUuid(r) ==
    /\ pc[r] = "validate"
    /\ loop = 0
    /\ IF (~TruthyFile(pdf[r]) /\ ~TruthyStr(pdf_url[r]))
          \/ (TruthyFile(pdf[r]) /\ TruthyStr(pdf_url[r]))
       THEN /\ status' = [status EXCEPT ![r] = 422]
            /\ pc' = [pc EXCEPT ![r] = "done"]
            /\ UNCHANGED <<session_id, fs, loop>>
       ELSE /\ \E u \in Sids :
                  /\ session_id' = [session_id EXCEPT ![r] = u]
                  /\ fs' = [fs EXCEPT ![u] = IF @.exists THEN @ ELSE EmptyDir]
            /\ pc' = [pc EXCEPT ![r] = "resolve"]
            /\ loop' = r
            /\ UNCHANGED status
    /\ UNCHANGED <<pdf, pdf_url, content, fetch, raster, image_paths, exc, body,
                   cleanup_calls>>

NextAnyUuid ==
    \/ \E r \in Req :
          \/ Receive(r)
          \/ ValidateAnyUuid(r)
          \/ BeginDownload(r)
          \/ FinishDownload(r)
          \/ CheckUpload(r)
          \/ WriteUpload(r)
          \/ VerifyPdf(r)
          \/ FinishRasterize(r)
          \/ BuildArchive(r)
          \/ Respond(r)
          \/ SendChunk(r)
          \/ AbortTransmission(r)
          \/ Background(r)
          \/ ExceptHTTPException(r)
          \/ ExceptException(r)
    \/ health_check

SpecAnyUuid == Init /\ [][NextAnyUuid]_vars

\* ------------------------------------------ create_zip_file on any path list
\* longest list of image paths handed to create_zip_file on its own
MaxList == 2

\* the file names the lists are made of
ZipNames == {PageName(i) : i \in 0..(MaxPages - 1)}

\* all lists of at most n elements of S
ListsOver(S, n) == UNION {[1..k -> S] : k \in 0..n}

\* create_zip_file as a function of its own (lines 91-114): a request stands
\* before the call of line 235 with any list of paths into its workspace, in
\* any order and with repetitions, and any of the named images on disk
InitZip ==
    \E r0 \in Req, names \in ListsOver(ZipNames, MaxList), present \in SUBSET ZipNames :
        /\ pc = [r \in Req |-> IF r = r0 THEN "archiving" ELSE "idle"]
        /\ pdf = [r \in Req |-> IF r = r0 THEN UploadFile(<<"A", ".", "P", "d", "f">>)
                                ELSE NoUpload]
        /\ pdf_url = [r \in Req |-> None]
        /\ session_id = [r \in Req |-> IF r = r0 THEN uuid4(r0) ELSE 0]
        /\ content = [r \in Req |-> IF r = r0 THEN Doc(1, MaxPages) ELSE NoFile]
        /\ fetch = [r \in Req |-> "none"]
        /\ raster = [r \in Req |-> IF r = r0 THEN "ok" ELSE "none"]
        /\ image_paths = [r \in Req |->
                             IF r = r0
                             THEN [j \in 1..Len(names) |-> Join(uuid4(r0), names[j])]
                             ELSE <<>>]
        /\ exc = [r \in Req |-> NoExc]
        /\ status = [r \in Req |-> 0]
        /\ body = [r \in Req |-> <<>>]
        /\ cleanup_calls = [r \in Req |-> 0]
        /\ loop = r0
        /\ fs = [s \in Sids |->
                    IF s = uuid4(r0)
                    THEN [exists |-> TRUE, input |-> Doc(1, MaxPages),
                          images |-> present, zip |-> NoZip]
                    ELSE NoDir]

NextZip == \E r \in Req : BuildArchive(r)

SpecZip == InitZip /\ [][NextZip]_vars

\* ------------------------------------------------------------------ claims
Completed(r) == pc[r] \in {"done", "aborted"}
HasWorkspace(r) == session_id[r] # 0 /\ fs[session_id[r]].exists
Neither(r) == ~pdf[r].set /\ pdf_url[r] = None
Both(r) == pdf[r].set /\ pdf_url[r] # None
OnlyUrl(r) == ~pdf[r].set /\ pdf_url[r] # None
OnlyPdf(r) == pdf[r].set /\ pdf_url[r] = None
RanDownload(r) == fetch[r] # "none"
RanUpload(r) == content[r] # NoFile
\* positions after source resolution succeeded
PastResolve == {"verify", "rasterizing", "archiving", "verify_zip", "sending",
                "background", "aborted"}
\* the entry names page_001.jpg, page_002.jpg, ... written out
ExpectedNames == << <<"page_", "0", "0", "1", ".jpg">>,
                    <<"page_", "0", "0", "2", ".jpg">>,
                    <<"page_", "0", "0", "3", ".jpg">>,
                    <<"page_", "0", "0", "4", ".jpg">> >>
Expected(n) == SubSeq(ExpectedNames, 1, n)

\* C1 (as claimed): once a request has completed, on whatever exit path, no
\* workspace directory temp/<session_id> of that request is left on disk.
C1_NoWorkspaceAfterCompletion ==
    \A r \in Req : Completed(r) => ~HasWorkspace(r)

\* C2: on the success path images.zip exists and is non-empty in every state
\* from the archive verification to the end of the transmission, and
\* cleanup_directory is not called before the transmission has completed.
C2_ArchiveValidUntilSent ==
    \A r \in Req :
        /\ pc[r] \in {"sending", "background"} =>
               /\ Exists(fs, zip_path(r))
               /\ GetSize(fs, zip_path(r)) > 0
               /\ cleanup_calls[r] = 0
        /\ (status[r] = 200 /\ cleanup_calls[r] > 0) =>
               /\ pc[r] = "done"
               /\ Len(body[r]) = Len(image_paths[r])

\* C2 witness: a request in the middle of its transmission (one chunk sent,
\* one to go) while another request has already run its cleanup
C2_Witness ==
    \E r, q \in Req :
        /\ r # q
        /\ pc[r] = "sending"
        /\ Len(body[r]) = 1
        /\ Len(image_paths[r]) = 2
        /\ cleanup_calls[q] = 1

\* C3: a request with neither or both of pdf and pdf_url is answered 422; a
\* request gets to source resolution only with exactly one of them, and then
\* only the resolver of that parameter runs (never both, and one of them has
\* run once resolution is over).
C3_ExactlyOneSource ==
    \A r \in Req :
        /\ (pc[r] \notin {"idle", "validate"} /\ (Neither(r) \/ Both(r))) =>
               /\ pc[r] = "done"
               /\ status[r] = 422
               /\ ~RanDownload(r) /\ ~RanUpload(r)
        /\ session_id[r] # 0 => (OnlyUrl(r) \/ OnlyPdf(r))
        /\ RanDownload(r) => (OnlyUrl(r) /\ ~RanUpload(r))
        /\ RanUpload(r) => (OnlyPdf(r) /\ ~RanDownload(r))
        /\ pc[r] \in PastResolve => (RanDownload(r) \/ RanUpload(r))

\* C3 witness: one request with both parameters was answered 422 while another,
\* with a file only, has resolved its source through the upload path
C3_Witness ==
    \E r, q \in Req :
        /\ Both(r) /\ status[r] = 422
        /\ OnlyPdf(q) /\ pc[q] = "verify" /\ RanUpload(q)

\* C4 (as claimed): whenever convert_pdf answers 200 the archive it returns has
\* one entry for every page the rasterization produced, also when
\* create_zip_file skipped a listed image that no longer existed.
C4_NoPartialZip ==
    \A r \in Req :
        (status[r] = 200 /\ pc[r] \in {"sending", "background"}) =>
            Len(fs[temp_dir(r)].zip.entries) = Len(image_paths[r])

\* C5: for a PDF of N >= 1 pages the archive on disk and the body the client
\* has when the transmission ends hold exactly the entries page_001.jpg ..
\* page_N.jpg, in page order, named without a directory.
C5_EntriesMatchPages ==
    \A r \in Req :
        pc[r] \in {"sending", "background"} =>
            LET n == fs[temp_dir(r)].input.pages
            IN  /\ n >= 1
                /\ fs[temp_dir(r)].zip.entries = Expected(n)
                /\ body[r] = Expected(Len(body[r]))
                /\ pc[r] = "background" => body[r] = Expected(n)

\* C5 witness: the transmission of the archive of a PDF of MaxPages pages ended
C5_Witness ==
    \E r \in Req :
        /\ pc[r] = "background"
        /\ fs[temp_dir(r)].input.pages = MaxPages
        /\ Len(body[r]) = MaxPages

\* C6 (as claimed): while a request is in the remote fetch or in the
\* rasterization, the dispatch loop is free for other requests.
C6_BlockingWorkOffLoop ==
    \A r \in Req : pc[r] \in {"downloading", "rasterizing"} => loop = 0

\* C7 (as claimed): a request with pdf_url only whose fetch failed is answered
\* 400, never starts rasterization or archive building, and leaves no
\* workspace directory behind.
C7_FetchFailure ==
    \A r \in Req :
        (OnlyUrl(r) /\ fetch[r] \in {"http_error", "net_error", "mid_transfer", "empty"}) =>
            /\ raster[r] = "none"
            /\ image_paths[r] = <<>>
            /\ ~fs[temp_dir(r)].zip.exists
            /\ Completed(r) => (status[r] = 400 /\ ~HasWorkspace(r))

\* C8: an upload whose filename does not end in .pdf (in any letter case), and
\* an upload of no bytes, are answered 400; input.pdf is never written and the
\* rasterization never starts. A name ending in .Pdf is not turned away.
C8_UploadRejected ==
    \A r \in Req :
        /\ (OnlyPdf(r) /\ pdf[r].filename = <<"a", ".", "t", "x", "t">>
                /\ pc[r] \notin {"idle", "validate", "resolve"}) =>
               /\ pc[r] \in {"except", "done"}
               /\ exc[r] = HTTPException(400, "not_pdf")
               /\ pc[r] = "done" => status[r] = 400
               /\ content[r] = NoFile
               /\ fs[temp_dir(r)].input = NoFile
               /\ raster[r] = "none"
        /\ (OnlyPdf(r) /\ content[r].size = 0) =>
               /\ pc[r] \in {"except", "done"}
               /\ exc[r] = HTTPException(400, "empty")
               /\ pc[r] = "done" => status[r] = 400
               /\ fs[temp_dir(r)].input = NoFile
               /\ raster[r] = "none"
        /\ (OnlyPdf(r) /\ pdf[r].filename = <<"A", ".", "P", "d", "f">>) =>
               exc[r] # HTTPException(400, "not_pdf")

\* C8 witness: one upload turned away for its name and one for being empty,
\* both answered
C8_Witness ==
    \E r, q \in Req :
        /\ pdf[r].filename = <<"a", ".", "t", "x", "t">> /\ status[r] = 400
        /\ content[q].size = 0 /\ status[q] = 400

\* C9 (as claimed): once the pipeline of a request is over and before its
\* cleanup, images.zip exists if and only if the rasterization returned at
\* least one page.
C9_ArchiveIffPages ==
    \A r \in Req :
        (pc[r] \in {"verify_zip", "sending", "background"}
            \/ (pc[r] = "except" /\ exc[r].detail \in {"no_images", "zip_failed"})) =>
            (fs[temp_dir(r)].zip.exists <=> Len(image_paths[r]) >= 1)

\* C9 (amended): when the rasterization raises or yields no page,
\* convert_pdf_to_images returns an empty list, the request is answered 500
\* and no images.zip is ever created; images.zip exists only if the
\* rasterization returned at least one page, and it does exist, non-empty,
\* whenever create_zip_file has reported success.
C9_ArchiveOnlyIfPages ==
    \A r \in Req :
        /\ raster[r] \in {"convert_raised", "save_raised", "zero_pages"} =>
               /\ image_paths[r] = <<>>
               /\ ~fs[temp_dir(r)].zip.exists
               /\ pc[r] \in {"except", "done"}
               /\ pc[r] = "except" => exc[r] = HTTPException(500, "no_images")
               /\ pc[r] = "done" => status[r] = 500
        /\ (session_id[r] # 0 /\ fs[temp_dir(r)].zip.exists) =>
               (raster[r] = "ok" /\ Len(image_paths[r]) >= 1)
        /\ (pc[r] \in {"verify_zip", "sending", "background"}) =>
               /\ Len(image_paths[r]) >= 1
               /\ Exists(fs, zip_path(r))
               /\ GetSize(fs, zip_path(r)) > 0

\* C9 witness: a save failed after the first page was written, the request was
\* answered 500 and its workspace, still on disk, holds a page but no archive
C9_Witness ==
    \E r \in Req :
        /\ raster[r] = "save_raised"
        /\ status[r] = 500
        /\ HasWorkspace(r)
        /\ fs[temp_dir(r)].images # {}

\* C10 (as claimed): every completed request has made exactly one call of
\* cleanup_directory.
C10_CleanupExactlyOnce ==
    \A r \in Req : Completed(r) => cleanup_calls[r] = 1

\* C11: two requests that convert PDFs of the same page count get archives with
\* the same entry names in the same order, whatever their session identifiers
\* and however their steps interleave; the client of each receives that list.
C11_ArchiveDeterministic ==
    \A r, q \in Req :
        (/\ r # q
         /\ pc[r] \in {"verify_zip", "sending", "background"}
         /\ pc[q] \in {"verify_zip", "sending", "background"}
         /\ fs[temp_dir(r)].input.pages = fs[temp_dir(q)].input.pages) =>
            /\ fs[temp_dir(r)].zip.entries = fs[temp_dir(q)].zip.entries
            /\ (pc[r] = "background" /\ pc[q] = "background") => body[r] = body[q]

\* C11 witness: two requests with different session identifiers have both
\* transmitted the archive of a PDF of MaxPages pages
C11_Witness ==
    \E r, q \in Req :
        /\ r # q
        /\ session_id[r] # session_id[q]
        /\ pc[r] = "background" /\ pc[q] = "background"
        /\ fs[temp_dir(r)].input.pages = MaxPages
        /\ fs[temp_dir(q)].input.pages = MaxPages
        /\ Len(body[r]) = MaxPages

\* the pipeline step a position belongs to: 1 VALIDATE_INPUT, 2 RESOLVE_SOURCE,
\* 3 VERIFY_PDF, 4 RASTERIZE, 5 BUILD_ARCHIVE, 6 VERIFY_ARCHIVE, 7 RESPOND
StepOf(p) ==
    CASE p = "validate" -> 1
      [] p \in {"resolve", "downloading", "reading"} -> 2
      [] p = "verify" -> 3
      [] p = "rasterizing" -> 4
      [] p = "archiving" -> 5
      [] p = "verify_zip" -> 6
      [] p = "sending" -> 7
      [] OTHER -> 0

\* what step k of request r has achieved, in the state it leaves behind
StepSucceeded(r, k) ==
    CASE k = 1 -> session_id'[r] # 0 /\ fs'[session_id'[r]].exists
                    /\ (OnlyUrl(r) \/ OnlyPdf(r))
      [] k = 2 -> Exists(fs', pdf_path(r))
                    /\ (fetch'[r] = "body" \/ content'[r].size > 0)
      [] k = 3 -> Exists(fs', pdf_path(r)) /\ GetSize(fs', pdf_path(r)) > 0
      [] k = 4 -> raster'[r] = "ok" /\ image_paths'[r] # <<>>
      [] k = 5 -> Exists(fs', zip_path(r)) /\ GetSize(fs', zip_path(r)) > 0
      [] k = 6 -> Exists(fs', zip_path(r)) /\ GetSize(fs', zip_path(r)) > 0
                    /\ status'[r] = 200
      [] OTHER -> FALSE

\* every change of position of request r is one of: the request arrives; a
\* move inside source resolution; the next step, its predecessor having
\* succeeded; a failure of the current step; the end of the transmission or
\* its abort; the end of the request
StepOrder(r) ==
    pc'[r] # pc[r] =>
        \/ pc[r] = "idle" /\ pc'[r] = "validate"
        \/ pc[r] = "resolve" /\ pc'[r] \in {"downloading", "reading"}
        \/ /\ StepOf(pc[r]) \in 1..6
           /\ StepOf(pc'[r]) = StepOf(pc[r]) + 1
           /\ pc'[r] # "downloading" /\ pc'[r] # "reading"
           /\ StepSucceeded(r, StepOf(pc[r]))
        \/ pc[r] = "validate" /\ pc'[r] = "done" /\ status'[r] = 422
        \/ StepOf(pc[r]) \in 2..6 /\ pc'[r] = "except" /\ exc'[r] # NoExc
        \/ pc[r] = "except" /\ pc'[r] = "done" /\ status'[r] \in {400, 500}
        \/ pc[r] = "sending" /\ pc'[r] \in {"background", "aborted"}
        \/ pc[r] = "background" /\ pc'[r] = "done"

\* once a step of request r has failed, nothing of the pipeline runs for it
\* again: its position stays in the failure handling, and its fetch, upload,
\* rasterization and archive are left as they are or removed with the workspace
NoStepAfterFailure(r) ==
    pc[r] \in {"except", "done", "aborted"} =>
        /\ pc'[r] \in {"except", "done", "aborted"}
        /\ fetch'[r] = fetch[r] /\ content'[r] = content[r]
        /\ raster'[r] = raster[r] /\ image_paths'[r] = image_paths[r]
        /\ session_id'[r] = session_id[r]
        /\ session_id[r] # 0 => fs'[temp_dir(r)] \in {fs[temp_dir(r)], NoDir}

C13_WorkspaceIsolation ==
    [][\A r \in Req :
          /\ (session_id[r] = 0 /\ session_id'[r] # 0) =>
                 /\ ~fs[session_id'[r]].exists
                 /\ fs'[session_id'[r]] = EmptyDir
                 /\ \A q \in Req \ {r} : session_id[q] # session_id'[r]
          /\ \A s \in Sids :
                 (fs'[s] # fs[s] /\ pc'[r] # pc[r]) =>
                     /\ session_id'[r] = s
                     /\ \A q \in Req \ {r} : session_id'[q] # s]_vars

\* C14 (as claimed): whenever download_pdf_from_url has failed (non-success
\* status, network error before or during the transfer, zero-byte result) it
\* has returned False without raising, so that the request is in its handler
\* for the 400 "download" error, and input.pdf does not exist at that moment.
C14_DownloadFailureLeavesNoFile ==
    \A r \in Req :
        (fetch[r] \in {"http_error", "net_error", "mid_transfer", "empty"}
            /\ pc[r] = "except") =>
            /\ exc[r] = HTTPException(400, "download")
            /\ ~Exists(fs, pdf_path(r))

\* C15: on the upload branch and on the URL branch alike, the call of
\* convert_pdf_to_images is made only from a state in which input.pdf exists
\* in the workspace with a size above zero; a request that comes to the check
\* with input.pdf missing or empty never gets to the rasterizer and is
\* answered 400.
C15_GateBeforeRasterize ==
    [][\A r \in Req :
          /\ (pc[r] = "verify" /\ pc'[r] = "rasterizing") =>
                 /\ Exists(fs, pdf_path(r))
                 /\ GetSize(fs, pdf_path(r)) > 0
                 /\ RanDownload(r) \/ RanUpload(r)
          /\ (pc[r] = "verify" /\ pc'[r] # "verify"
                 /\ (~Exists(fs, pdf_path(r)) \/ GetSize(fs, pdf_path(r)) = 0)) =>
                 /\ pc'[r] = "except"
                 /\ exc'[r] = HTTPException(400, "invalid")
          /\ (raster[r] = "none" /\ raster'[r] # "none") => pc[r] = "rasterizing"
          /\ (exc[r] = HTTPException(400, "invalid") /\ pc'[r] = "done") =>
                 (status'[r] = 400 /\ raster'[r] = "none")]_vars

\* C15 witness: a download has passed the check and is in the rasterizer,
\* while an upload whose input.pdf was gone at the check has been answered 400
C15_Witness ==
    \E r, q \in Req :
        /\ OnlyUrl(r) /\ pc[r] = "rasterizing"
        /\ OnlyPdf(q) /\ pc[q] = "done" /\ status[q] = 400
        /\ exc[q] = HTTPException(400, "invalid")

\* create_zip_file has returned for request r, with True or with False
ZipReturned(r) ==
    \/ pc[r] = "verify_zip"
    \/ pc[r] = "except" /\ exc[r] = HTTPException(500, "zip_failed")

\* the base filenames of the listed paths that exist, in list order
BasenamesOfExisting(f, paths) ==
    LET kept == SelectSeq(paths, LAMBDA p : Exists(f, p))
    IN  [j \in 1..Len(kept) |-> Basename(kept[j])]

\* C16 (as claimed): for every list of image paths, when create_zip_file has
\* returned True the archive holds, in list order, one entry per listed path
\* that exists, each named by the base filename of that path; and it has
\* returned True exactly when the archive exists with a size above zero.
C16_ZipNamedByBasename ==
    \A r \in Req :
        /\ pc[r] = "verify_zip" =>
               fs[temp_dir(r)].zip.entries = BasenamesOfExisting(fs, image_paths[r])
        /\ ZipReturned(r) =>
               (pc[r] = "verify_zip" <=>
                    (Exists(fs, zip_path(r)) /\ GetSize(fs, zip_path(r)) > 0))

\* C17: on every file system the program gets into, for every workspace path
\* and either outcome of the removal, cleanup_directory returns a file system
\* (it has no raising outcome): one equal to its argument when the path is
\* gone or the removal fails, one without the directory when the removal
\* succeeds, with every other workspace untouched; a second call on the result
\* changes nothing.
C17_CleanupIdempotent ==
    \A d \in Sids, rm \in RmOutcomes :
        LET once == cleanup_directory(fs, d, rm)
        IN  /\ DOMAIN once = Sids
            /\ \A s \in Sids \ {d} : once[s] = fs[s]
            /\ ~fs[d].exists => once = fs
            /\ rm = "fail" => once = fs
            /\ rm = "ok" => once[d] = NoDir
            /\ cleanup_directory(once, d, rm) = once
            /\ rm = "ok" =>
                   \A rm2 \in RmOutcomes : cleanup_directory(once, d, rm2) = once

\* C17 witness: one workspace is gone after the cleanup of its request, while
\* another is on disk with input.pdf, page images and images.zip in it
C17_Witness ==
    \E r, q \in Req :
        /\ pc[r] = "done" /\ cleanup_calls[r] = 1
        /\ session_id[r] # 0 /\ ~fs[temp_dir(r)].exists
        /\ session_id[q] # 0 /\ fs[temp_dir(q)].exists
        /\ fs[temp_dir(q)].images # {} /\ fs[temp_dir(q)].zip.exists

\* the cleanup call of request r has been made and left the workspace on disk
CleanupFailed(r) == cleanup_calls[r] >= 1 /\ HasWorkspace(r)

\* C18: once the cleanup call of a request has been made, whether it removed
\* the workspace or failed, the client has what was determined before it: 200
\* and the whole archive when no exception was in flight; otherwise the status
\* and detail of the HTTPException that was in flight, which names the step
\* that failed; and 500 "internal" for any other exception.
C18_OutcomeSurvivesCleanup ==
    \A r \in Req :
        cleanup_calls[r] >= 1 =>
            /\ pc[r] = "done"
            /\ exc[r] = NoExc =>
                   /\ status[r] = 200
                   /\ body[r] = Expected(Len(image_paths[r]))
                   /\ Len(image_paths[r]) >= 1
            /\ exc[r] # NoExc =>
                   /\ exc[r].type = "HTTPException"
                   /\ status[r] = exc[r].code
                   /\ body[r] = <<>>
                   /\ exc[r].detail = "download" => (status[r] = 400 /\ RanDownload(r)
                                                       /\ fetch[r] # "body")
                   /\ exc[r].detail = "not_pdf" => (status[r] = 400 /\ ~RanUpload(r))
                   /\ exc[r].detail = "empty" => (status[r] = 400 /\ content[r].size = 0)
                   /\ exc[r].detail = "no_images" =>
                          (status[r] = 500 /\ raster[r] \notin {"none", "ok"})
                   /\ exc[r].detail \in {"zip_failed", "zip_empty"} =>
                          (status[r] = 500 /\ raster[r] = "ok")
                   /\ exc[r].detail = "internal" =>
                          (status[r] = 500 /\ content[r].size > 0 /\ raster[r] = "none")
                   /\ exc[r].detail \in {"download", "not_pdf", "empty", "no_images",
                                         "zip_failed", "zip_empty", "internal"}

\* C18 witness: the cleanup failed for a request answered 200 with its whole
\* archive and for a request answered 400
C18_Witness ==
    \E r, q \in Req :
        /\ CleanupFailed(r) /\ status[r] = 200 /\ Len(body[r]) = MaxPages
        /\ CleanupFailed(q) /\ status[q] = 400

\* C19: the step that rejects a request with 422 is taken for a request with
\* both or neither source, and it leaves the whole of temp/ and every session
\* identifier as they were; the rejected request never gets a session
\* identifier or a workspace afterwards, and runs no cleanup.
C19_RejectedLeavesNoTrace ==
    [][\A r \in Req :
          /\ (status[r] = 0 /\ status'[r] = 422) =>
                 /\ Neither(r) \/ Both(r)
                 /\ fs' = fs
                 /\ session_id' = session_id
                 /\ session_id[r] = 0
          /\ status[r] = 422 =>
                 /\ status'[r] = 422
                 /\ pc'[r] = "done"
                 /\ session_id'[r] = 0
                 /\ cleanup_calls'[r] = 0
                 /\ content'[r] = NoFile /\ fetch'[r] = "none"]_vars

\* C19 witness: a request with neither source was answered 422 while the
\* workspace of another request holds page images
C19_Witness ==
    \E r, q \in Req :
        /\ Neither(r) /\ status[r] = 422 /\ session_id[r] = 0
        /\ HasWorkspace(q) /\ fs[temp_dir(q)].images # {}
        /\ pc[q] \in {"archiving", "verify_zip", "sending"}

====
